---- MODULE Spec2Model ----
(***************************************************************************)
(* A model of file_tools.Tools: file-and-folder primitives resolved        *)
(* against base_path, and the keyword search search_files (an os.walk of   *)
(* a subtree with a name test and a text-mode content test).               *)
(*                                                                         *)
(* A file name is a sequence of characters, a path is the sequence of the  *)
(* names from the filesystem root, and a file's content is the sequence    *)
(* of the characters stored in it.                                         *)
(***************************************************************************)
EXTENDS Naturals, Sequences, FiniteSets

VARIABLES
    fs,             \* the file system: path -> node, for the existing paths
    scanOrder,      \* the order in which the file system lists names
    pc,             \* search_files: "idle", "walk", "done" or "raised"
    keyword,        \* search_files: its keyword argument
    directory,      \* search_files: its directory argument
    stack,          \* os.walk: the directories still to be listed
    root,           \* os.walk: the directory whose files are being tested
    todo,           \* os.walk: the files of root still to be tested
    matching_files, \* search_files: the list being built, then returned
    exc,            \* the exception search_files raised, "" for none
    opened,         \* history: the paths search_files has opened
    listed,         \* history: the files os.walk has listed
    visited,        \* history: the directories os.walk has listed
    skipped,        \* history: the directories os.walk could not list
    tested,         \* history: the files the match test was applied to
    snapshot,       \* history: the file system when search_files was called
    prev,           \* history: the result of the call before, same arguments
    op,             \* history: the operation called last, with its arguments
    ret,            \* what the operation called last returned or raised
    touched,        \* history: the paths the operation called last worked on
    written         \* history: name -> the content last written under it

vars == << fs, scanOrder, pc, keyword, directory, stack, root, todo,
           matching_files, exc, opened, listed, visited, skipped, tested,
           snapshot, prev, op, ret, touched, written >>

opVars == << op, ret, touched, written >>

searchVars == << pc, keyword, directory, stack, root, todo, matching_files,
                 exc, opened, listed, visited, skipped, tested, snapshot,
                 prev >>

----------------------------------------------------------------------------
(* Bounds *)

\* the most entries (files and folders) a tree under base_path starts with
MaxEntries == 3

\* the most entries (files and folders) the operations may have made
MaxMade == 2

----------------------------------------------------------------------------
(* Names, paths and contents *)

NameAB == << "a", "b" >>
NameB == << "b" >>
NameW == << "w" >>
DotDot == << ".", "." >>

\* the names of the entries under base_path
Names == { NameAB, NameB }

\* self.base_path, a directory directly under the filesystem root
base_path == << NameW >>

\* the filesystem root, "/"
FsRoot == << >>

\* no path: what a path resolves to when a component of it is missing
NoEnt == << << "?" >> >>

\* a byte sequence that is not valid in the text encoding
BAD == "BAD"
CR == "CR"
LF == "LF"

Contents == { << "a" >>, << CR >>, << BAD, "a" >> }

Keywords == { << >>, << "a" >>, << CR >>, << LF >> }

DirNode(acc) == [ kind |-> "dir", content |-> << >>, acc |-> acc ]
FileNode(content, acc) == [ kind |-> "file", content |-> content, acc |-> acc ]

\* the files a tree may start with: readable ones of every content, one
\* without read permission, one whose open fails with another I/O error
FileNodes ==
    { FileNode(c, "rw") : c \in Contents }
        \cup { FileNode(<< "a" >>, "noperm"), FileNode(<< "a" >>, "ioerr") }

DirNodes == { DirNode("rw"), DirNode("noperm") }

Exists(f, p) == p \in DOMAIN f
IsDir(f, p) == p \in DOMAIN f /\ f[p].kind = "dir"
IsFile(f, p) == p \in DOMAIN f /\ f[p].kind = "file"

Parent(p) == IF p = << >> THEN << >> ELSE SubSeq(p, 1, Len(p) - 1)
BaseName(p) == p[Len(p)]

IsPrefix(p, q) == Len(p) <= Len(q) /\ SubSeq(q, 1, Len(p)) = p

\* p lies in the subtree of d, d itself included
Within(d, p) == IsPrefix(d, p)

\* a caller-supplied path: absolute or relative, as a list of components
Rel(comps) == [ abs |-> FALSE, comps |-> comps ]
Abs(comps) == [ abs |-> TRUE, comps |-> comps ]

\* os.path.join(self.base_path, name): an absolute name replaces the base
Join(b, arg) == IF arg.abs THEN arg.comps ELSE b \o arg.comps

\* the path the operating system reaches for a list of components: ".."
\* steps to the parent of a directory, and fails below anything else
RECURSIVE Resolve(_, _, _)
Resolve(f, cur, comps) ==
    IF comps = << >> THEN cur
    ELSE IF Head(comps) = DotDot
         THEN IF IsDir(f, cur) THEN Resolve(f, Parent(cur), Tail(comps))
              ELSE NoEnt
         ELSE Resolve(f, Append(cur, Head(comps)), Tail(comps))

PathOf(f, arg) == Resolve(f, FsRoot, Join(base_path, arg))

\* keyword in s
IsSubstring(k, s) ==
    \E i \in 0 .. (Len(s) - Len(k)) : SubSeq(s, i + 1, i + Len(k)) = k

\* universal newlines: reading in text mode turns CR LF and CR into LF
RECURSIVE Translate(_)
Translate(s) ==
    IF s = << >> THEN << >>
    ELSE IF Head(s) = CR
         THEN IF Len(s) >= 2 /\ s[2] = LF
              THEN << LF >> \o Translate(SubSeq(s, 3, Len(s)))
              ELSE << LF >> \o Translate(Tail(s))
         ELSE << Head(s) >> \o Translate(Tail(s))

Decodable(s) == \A i \in 1 .. Len(s) : s[i] # BAD

\* open(p, "r") followed by read(): the text, or the exception raised
OpenRead(f, p) ==
    IF ~Exists(f, p) THEN [ err |-> "FileNotFoundError", text |-> << >> ]
    ELSE IF f[p].kind = "dir" THEN [ err |-> "IsADirectoryError", text |-> << >> ]
    ELSE IF f[p].acc = "noperm" THEN [ err |-> "PermissionError", text |-> << >> ]
    ELSE IF f[p].acc = "ioerr" THEN [ err |-> "OSError", text |-> << >> ]
    ELSE IF ~Decodable(f[p].content)
         THEN [ err |-> "UnicodeDecodeError", text |-> << >> ]
    ELSE [ err |-> "", text |-> Translate(f[p].content) ]

\* what open(p, mode) does to the file system: "r" leaves it as it is, "w"
\* creates the file or empties it
OpenEffect(f, p, mode) ==
    IF mode = "w" /\ IsDir(f, Parent(p)) /\ ~IsDir(f, p)
    THEN [ q \in DOMAIN f \cup { p } |->
             IF q = p THEN FileNode(<< >>, "rw") ELSE f[q] ]
    ELSE f

----------------------------------------------------------------------------
(* Directory listing *)

\* the elements of seq that satisfy Keep, in their order
RECURSIVE Filter(_, _)
Filter(seq, keep) ==
    IF seq = << >> THEN << >>
    ELSE IF Head(seq) \in keep THEN << Head(seq) >> \o Filter(Tail(seq), keep)
    ELSE Filter(Tail(seq), keep)

Range(seq) == { seq[i] : i \in 1 .. Len(seq) }

\* os.scandir(d) succeeds
Listable(f, d) == IsDir(f, d) /\ f[d].acc = "rw"

\* a mutant of WalkDirs: the sub-directories are not walked
WalkNoDirs(f, order, d) == << >>

\* the sub-directory names of d, and its other names, as os.walk lists them
WalkDirs(f, order, d) ==
    Filter(order, { n \in Range(order) : IsDir(f, Append(d, n)) })
WalkFiles(f, order, d) ==
    Filter(order, { n \in Range(order) : IsFile(f, Append(d, n)) })

PathsOf(d, names) == [ i \in 1 .. Len(names) |-> Append(d, names[i]) ]

----------------------------------------------------------------------------
(* The trees a search starts from *)

\* the prefix-closed sets of at most n paths under base_path
RECURSIVE Shapes(_)
Shapes(n) ==
    IF n = 0 THEN { {} }
    ELSE LET smaller == Shapes(n - 1)
         IN  smaller \cup
             UNION { { s \cup { Append(p, m) } :
                         p \in { base_path } \cup s, m \in Names } :
                     s \in smaller }

\* the paths of shape s that have an entry of s below them
Inner(s) == { p \in s : \E q \in s : q # p /\ IsPrefix(p, q) }

\* a tree: the filesystem root, base_path, and a node for every path of a
\* shape, a directory wherever the shape has entries below
Trees ==
    UNION { { [ p \in { FsRoot, base_path } \cup s |->
                  IF p \in s THEN lab[p] ELSE DirNode("rw") ] :
              lab \in { l \in [ s -> FileNodes \cup DirNodes ] :
                          \A p \in Inner(s) : l[p].kind = "dir" } } :
            s \in Shapes(MaxEntries) }

\* the orders in which a file system may list the names
Orders == { << NameAB, NameB, NameW >>, << NameW, NameB, NameAB >> }

\* the directory arguments of search_files: "" and "b"
SearchDirs == { Rel(<< >>), Rel(<< NameB >>) }

NoPrev == << << << "none" >> >> >>

----------------------------------------------------------------------------
(* search_files *)

\* nothing written yet
NoWrites == [ name \in {} |-> << >> ]

\* no operation called yet
NoCall == [ name |-> "", a1 |-> Rel(<< >>), a2 |-> Rel(<< >>), content |-> << >> ]
NoRet == [ kind |-> "none", msg |-> "", text |-> << >>, names |-> << >>, size |-> 0 ]

\* a mutant of InitialMatches: the list of the call before is kept
StaleMatches == matching_files

\* matching_files = []
InitialMatches == << >>

\* a mutant of SearchOpenMode: the candidate is opened for writing
WriteMode == "w"

\* the mode of open(file_path, "r")
SearchOpenMode == "r"

\* a mutant of NameTest: the name must equal the keyword
NameEquals(kw, file) == kw = file

\* keyword in file
NameTest(kw, file) == IsSubstring(kw, file)

\* matching_files = [] and the start of os.walk(search_path)
SearchStart(kw, dir) ==
    /\ pc \in { "idle", "done" }
    /\ pc' = "walk"
    /\ keyword' = kw
    /\ directory' = dir
    /\ stack' = << PathOf(fs, dir) >>
    /\ root' = << >>
    /\ todo' = << >>
    /\ matching_files' = InitialMatches
    /\ exc' = ""
    /\ opened' = {}
    /\ listed' = {}
    /\ visited' = << >>
    /\ skipped' = {}
    /\ tested' = << >>
    /\ snapshot' = fs
    /\ prev' = IF pc = "done" /\ kw = keyword /\ dir = directory /\ fs = snapshot
               THEN matching_files ELSE NoPrev
    /\ op' = [ name |-> "search_files", a1 |-> dir, a2 |-> Rel(<< >>),
               content |-> kw ]
    /\ ret' = NoRet
    /\ touched' = {}
    /\ UNCHANGED << fs, scanOrder, written >>

\* os.walk lists the next directory: its files are tested next, its
\* sub-directories are walked after them, before the directories pending;
\* with onerror None a directory that cannot be listed is passed over
WalkStep(onerror) ==
    /\ pc = "walk"
    /\ todo = << >>
    /\ stack # << >>
    /\ LET top == Head(stack)
       IN  IF Listable(fs, top)
           THEN /\ root' = top
                /\ todo' = WalkFiles(fs, scanOrder, top)
                /\ stack' = PathsOf(top, WalkDirs(fs, scanOrder, top))
                                \o Tail(stack)
                /\ listed' = listed \cup
                       { Append(top, n) : n \in Range(WalkFiles(fs, scanOrder, top)) }
                /\ visited' = Append(visited, top)
                /\ UNCHANGED << pc, exc, skipped >>
           ELSE IF onerror = "None"
           THEN /\ stack' = Tail(stack)
                /\ skipped' = skipped \cup { top }
                /\ UNCHANGED << pc, exc, root, todo, listed, visited >>
           ELSE /\ pc' = "raised"
                /\ exc' = "OSError"
                /\ UNCHANGED << stack, root, todo, listed, visited, skipped >>
    /\ UNCHANGED << fs, scanOrder, keyword, directory, matching_files,
                    opened, tested, snapshot, prev, opVars >>

\* a mutant of WalkDir: a directory that cannot be listed raises
WalkDirRaising == WalkStep("raise")

\* for root, dirs, files in os.walk(search_path)
WalkDir == WalkStep("None")

\* the exceptions the content test catches
Caught == { "UnicodeDecodeError", "PermissionError" }

\* the body of "for file in files": the name test and, when it fails (else),
\* the content test
VisitStep(else_branch) ==
    /\ pc = "walk"
    /\ todo # << >>
    /\ LET file == Head(todo)
           file_path == Append(root, file)
           named == NameTest(keyword, file)
           byName == IF named THEN << file_path >> ELSE << >>
           r == OpenRead(fs, file_path)
       IN  IF named /\ else_branch
           THEN /\ matching_files' = matching_files \o byName
                /\ UNCHANGED << fs, pc, exc, opened >>
           ELSE /\ opened' = opened \cup { file_path }
                /\ fs' = OpenEffect(fs, file_path, SearchOpenMode)
                /\ IF r.err = ""
                   THEN /\ matching_files' =
                              IF IsSubstring(keyword, r.text)
                              THEN (matching_files \o byName) \o << file_path >>
                              ELSE matching_files \o byName
                        /\ UNCHANGED << pc, exc >>
                   ELSE IF r.err \in Caught
                   THEN /\ matching_files' = matching_files \o byName
                        /\ UNCHANGED << pc, exc >>
                   ELSE /\ pc' = "raised"
                        /\ exc' = r.err
                        /\ matching_files' = matching_files \o byName
    /\ todo' = Tail(todo)
    /\ tested' = Append(tested, Append(root, Head(todo)))
    /\ UNCHANGED << scanOrder, keyword, directory, stack, root, listed,
                    visited, skipped, snapshot, prev, opVars >>

\* a mutant of VisitFile: the content test is not under else
VisitFileNoElse == VisitStep(FALSE)

\* for file in files: if keyword in file: ... else: ...
VisitFile == VisitStep(TRUE)

\* the walk is over: logging.info(...) and return matching_files
SearchReturn ==
    /\ pc = "walk"
    /\ todo = << >>
    /\ stack = << >>
    /\ pc' = "done"
    /\ UNCHANGED << fs, scanOrder, keyword, directory, stack, root, todo,
                    matching_files, exc, opened, listed, visited, skipped,
                    tested, snapshot, prev, opVars >>

----------------------------------------------------------------------------
(* Searches of a tree that nothing else changes *)

SearchIdle ==
    /\ pc = "idle"
    /\ keyword = << >>
    /\ directory = Rel(<< >>)
    /\ stack = << >>
    /\ root = << >>
    /\ todo = << >>
    /\ matching_files = << >>
    /\ exc = ""
    /\ opened = {}
    /\ listed = {}
    /\ visited = << >>
    /\ skipped = {}
    /\ tested = << >>
    /\ prev = NoPrev
    /\ op = NoCall
    /\ ret = NoRet
    /\ touched = {}
    /\ written = NoWrites

Init ==
    /\ fs \in Trees
    /\ scanOrder \in Orders
    /\ snapshot = fs
    /\ SearchIdle

Next ==
    \/ \E kw \in Keywords, dir \in SearchDirs : SearchStart(kw, dir)
    \/ WalkDir
    \/ VisitFile
    \/ SearchReturn

Spec == Init /\ [][Next]_vars

----------------------------------------------------------------------------
(* Searches during which another process deletes files and folders *)

\* another process removes the file p, or the folder p with all below it,
\* while search_files is walking
EnvDelete(p) ==
    /\ pc = "walk"
    /\ Exists(fs, p)
    /\ Within(base_path, p)
    /\ p # base_path
    /\ fs' = [ q \in { q \in DOMAIN fs : ~Within(p, q) } |-> fs[q] ]
    /\ UNCHANGED << scanOrder, pc, keyword, directory, stack, root, todo,
                    matching_files, exc, opened, listed, visited, skipped,
                    tested, snapshot, prev, opVars >>

NextRace ==
    \/ \E kw \in Keywords, dir \in SearchDirs : SearchStart(kw, dir)
    \/ WalkDir
    \/ VisitFile
    \/ SearchReturn
    \/ \E p \in DOMAIN fs : EnvDelete(p)

SpecRace == Init /\ [][NextRace]_vars

----------------------------------------------------------------------------
(* The file system calls the operations make *)

\* os.linesep, what writing in text mode puts for LF
linesep == << LF >>

\* the bytes file.write(content) stores in text mode
RECURSIVE WriteText(_)
WriteText(s) ==
    IF s = << >> THEN << >>
    ELSE (IF Head(s) = LF THEN linesep ELSE << Head(s) >>) \o WriteText(Tail(s))

Front(seq) == SubSeq(seq, 1, Len(seq) - 1)

\* os.path.exists(os.path.join(self.base_path, name))
PathExists(f, arg) == Exists(f, PathOf(f, arg))

\* the directory os.path.dirname(os.path.join(self.base_path, name)) names
DirName(f, arg) == Resolve(f, FsRoot, Front(Join(base_path, arg)))

Done(f) == [ fs |-> f, exc |-> "" ]
Fail(f, e) == [ fs |-> f, exc |-> e ]

Prefixes(d) == { SubSeq(d, 1, i) : i \in 0 .. Len(d) }

\* os.makedirs(d): every missing directory down to d is made; a file in the
\* way raises
Makedirs(f, d) ==
    IF d = NoEnt THEN Fail(f, "FileNotFoundError")
    ELSE IF IsFile(f, d) THEN Fail(f, "FileExistsError")
    ELSE IF \E q \in Prefixes(d) : IsFile(f, q) THEN Fail(f, "NotADirectoryError")
    ELSE Done([ q \in DOMAIN f \cup Prefixes(d) |->
                  IF q \in DOMAIN f THEN f[q] ELSE DirNode("rw") ])

\* with open(p, "w") as file: file.write(content)
WriteFile(f, p, content) ==
    IF IsDir(f, p) THEN Fail(f, "IsADirectoryError")
    ELSE IF ~IsDir(f, Parent(p)) THEN Fail(f, "FileNotFoundError")
    ELSE Done([ OpenEffect(f, p, "w") EXCEPT ![p].content = WriteText(content) ])

\* the file system without p and all below it
Without(f, p) == [ q \in { q \in DOMAIN f : ~Within(p, q) } |-> f[q] ]

\* the nodes of f at and below src, placed at and below dst
Grafted(f, src, dst) ==
    LET moved == { q \in DOMAIN f : Within(src, q) }
        At(q) == dst \o SubSeq(q, Len(src) + 1, Len(q))
    IN  [ t \in { At(q) : q \in moved } |->
            f[CHOOSE q \in moved : At(q) = t] ]

\* g laid over f
Over(f, g) ==
    [ q \in DOMAIN f \cup DOMAIN g |-> IF q \in DOMAIN g THEN g[q] ELSE f[q] ]

\* shutil.rmtree(p)
Rmtree(f, p) ==
    IF ~IsDir(f, p) THEN Fail(f, "NotADirectoryError") ELSE Done(Without(f, p))

\* os.remove(p)
Remove(f, p) ==
    IF IsDir(f, p) THEN Fail(f, "IsADirectoryError") ELSE Done(Without(f, p))

\* shutil.copy2(src, dst): into dst when dst is a directory
Copy2(f, src, dst) ==
    LET to == IF IsDir(f, dst) THEN Append(dst, BaseName(src)) ELSE dst
    IN  IF to = src THEN Fail(f, "SameFileError")
        ELSE IF IsDir(f, src) \/ IsDir(f, to) THEN Fail(f, "IsADirectoryError")
        ELSE Done([ q \in DOMAIN f \cup { to } |-> IF q = to THEN f[src] ELSE f[q] ])

\* shutil.copytree(src, dst): src is listed, dst is made, the entries of src
\* are copied
Copytree(f, src, dst) ==
    IF ~IsDir(f, src) THEN Fail(f, "NotADirectoryError")
    ELSE IF Exists(f, dst) THEN Fail(f, "FileExistsError")
    ELSE Done(Over(f, Grafted(f, src, dst)))

\* shutil.move(src, dst): into dst when dst is a directory, else os.rename
Move(f, src, dst) ==
    LET into == IsDir(f, dst) /\ dst # src
        to == IF into THEN Append(dst, BaseName(src)) ELSE dst
    IN  IF into /\ Exists(f, to) THEN Fail(f, "Error")
        ELSE IF to = src THEN Done(f)
        ELSE IF IsDir(f, src) /\ Within(src, to) THEN Fail(f, "Error")
        ELSE IF IsDir(f, src) /\ Exists(f, to) THEN Fail(f, "FileExistsError")
        ELSE Done(Over(Without(f, src), Grafted(f, src, to)))

----------------------------------------------------------------------------
(* What an operation returns *)

Str(m) == [ kind |-> "str", msg |-> m, text |-> << >>, names |-> << >>, size |-> 0 ]
Text(t) == [ kind |-> "str", msg |-> "", text |-> t, names |-> << >>, size |-> 0 ]
Listing(n) == [ kind |-> "str", msg |-> "Files in the specified directory:\n",
                text |-> << >>, names |-> n, size |-> 0 ]
Bool(b) == [ kind |-> "bool", msg |-> IF b THEN "True" ELSE "False",
             text |-> << >>, names |-> << >>, size |-> 0 ]
Dict(n) == [ kind |-> "dict", msg |-> "", text |-> << >>, names |-> << >>, size |-> n ]
Raised(e) == [ kind |-> "raise", msg |-> e, text |-> << >>, names |-> << >>, size |-> 0 ]

\* the outcome of an operation: the file system it leaves, what it returns,
\* the paths it worked on
Out(f, r, t) == [ fs |-> f, ret |-> r, touched |-> t ]

\* the outcome of a file system call that ends the operation: r when it
\* succeeds, the exception when it raises
Ending(res, r, t) ==
    Out(res.fs, IF res.exc = "" THEN r ELSE Raised(res.exc), t)

Call(name, a1, a2, content) ==
    [ name |-> name, a1 |-> a1, a2 |-> a2, content |-> content ]

\* the operations that write a content under a name, and those that leave
\* the file system as it is
WriteCalls == { "create_file", "write_to_file" }
ReadCalls ==
    { "read_file", "list_files", "is_file", "is_directory", "get_file_metadata" }

\* the contents written last by create_file and write_to_file, name by name,
\* for as long as no other operation has changed the file system since
Remembered(w, call, out) ==
    IF call.name \in WriteCalls
    THEN IF out.ret.kind = "str"
         THEN [ name \in DOMAIN w \cup { call.a1 } |->
                  IF name = call.a1 THEN call.content ELSE w[name] ]
         ELSE w
    ELSE IF call.name \in ReadCalls THEN w
    ELSE NoWrites

\* an operation is called before any search, and runs to its end
Operation(call, out) ==
    /\ pc = "idle"
    /\ Cardinality(DOMAIN out.fs \ { FsRoot, base_path }) <= MaxMade
    /\ fs' = out.fs
    /\ ret' = out.ret
    /\ touched' = out.touched
    /\ op' = call
    /\ written' = Remembered(written, call, out)
    /\ UNCHANGED << scanOrder, searchVars >>

----------------------------------------------------------------------------
(* The operations of Tools *)

create_folder_out(f, folder_name) ==
    LET folder_path == PathOf(f, folder_name)
    IN  IF ~Exists(f, folder_path)
        THEN Ending(Makedirs(f, folder_path),
                    Str("Folder '{folder_name}' created successfully!"),
                    { folder_path })
        ELSE Out(f, Str("Folder '{folder_name}' already exists."),
                 { folder_path })

create_folder(folder_name) ==
    Operation(Call("create_folder", folder_name, Rel(<< >>), << >>),
              create_folder_out(fs, folder_name))

delete_folder_out(f, folder_name) ==
    LET folder_path == PathOf(f, folder_name)
    IN  IF Exists(f, folder_path)
        THEN Ending(Rmtree(f, folder_path),
                    Str("Folder '{folder_name}' deleted successfully!"),
                    { folder_path })
        ELSE Out(f, Str("Folder '{folder_name}' does not exist."),
                 { folder_path })

delete_folder(folder_name) ==
    Operation(Call("delete_folder", folder_name, Rel(<< >>), << >>),
              delete_folder_out(fs, folder_name))

\* create_file and write_to_file have the same body
write_out(f, file_name, content, message) ==
    LET file_path == PathOf(f, file_name)
        made == Makedirs(f, DirName(f, file_name))
        t == { file_path, DirName(f, file_name) }
    IN  IF made.exc # "" THEN Out(made.fs, Raised(made.exc), t)
        ELSE Ending(WriteFile(made.fs, file_path, content), Str(message), t)

create_file(file_name, content) ==
    Operation(Call("create_file", file_name, Rel(<< >>), content),
              write_out(fs, file_name, content,
                        "File '{file_name}' created successfully!"))

write_to_file(file_name, content) ==
    Operation(Call("write_to_file", file_name, Rel(<< >>), content),
              write_out(fs, file_name, content,
                        "Content written to file '{file_name}' successfully!"))

delete_file_out(f, file_name) ==
    LET file_path == PathOf(f, file_name)
    IN  IF Exists(f, file_path)
        THEN Ending(Remove(f, file_path),
                    Str("File '{file_name}' deleted successfully!"),
                    { file_path })
        ELSE Out(f, Str("File '{file_name}' does not exist."), { file_path })

delete_file(file_name) ==
    Operation(Call("delete_file", file_name, Rel(<< >>), << >>),
              delete_file_out(fs, file_name))

read_file_out(f, file_name) ==
    LET file_path == PathOf(f, file_name)
        r == OpenRead(f, file_path)
    IN  IF Exists(f, file_path)
        THEN Out(f, IF r.err = "" THEN Text(r.text) ELSE Raised(r.err),
                 { file_path })
        ELSE Out(f, Str("File '{file_name}' does not exist."), { file_path })

read_file(file_name) ==
    Operation(Call("read_file", file_name, Rel(<< >>), << >>),
              read_file_out(fs, file_name))

list_files_out(f, order, dir) ==
    LET directory_path == PathOf(f, dir)
        names == Filter(order, { n \in Range(order) :
                                   Exists(f, Append(directory_path, n)) })
    IN  IF ~Exists(f, directory_path)
        THEN Out(f, Raised("FileNotFoundError"), { directory_path })
        ELSE IF ~IsDir(f, directory_path)
        THEN Out(f, Raised("NotADirectoryError"), { directory_path })
        ELSE Out(f, Listing(names), { directory_path })

list_files(dir) ==
    Operation(Call("list_files", dir, Rel(<< >>), << >>),
              list_files_out(fs, scanOrder, dir))

\* copy_file, copy_folder, move_file and move_folder have the same body
\* around the shutil call: the folder of the destination is made first,
\* then the source is looked for
transfer_out(f, src, dest, made, done, message, missing) ==
    LET src_path == PathOf(f, src)
        dest_path == PathOf(f, dest)
        t == { src_path, dest_path, DirName(f, dest) }
    IN  IF made.exc # "" THEN Out(made.fs, Raised(made.exc), t)
        ELSE IF Exists(made.fs, src_path)
        THEN Ending(done, Str(message), t)
        ELSE Out(made.fs, Str(missing), t)

copy_file_out(f, src_file, dest_file) ==
    LET made == Makedirs(f, DirName(f, dest_file))
    IN  transfer_out(f, src_file, dest_file, made,
                     Copy2(made.fs, PathOf(f, src_file), PathOf(f, dest_file)),
                     "File '{src_file}' copied successfully to {dest_file}!",
                     "File '{src_file}' does not exist.")

copy_file(src_file, dest_file) ==
    Operation(Call("copy_file", src_file, dest_file, << >>),
              copy_file_out(fs, src_file, dest_file))

copy_folder_out(f, src_folder, dest_folder) ==
    LET made == Makedirs(f, DirName(f, dest_folder))
    IN  transfer_out(f, src_folder, dest_folder, made,
                     Copytree(made.fs, PathOf(f, src_folder),
                              PathOf(f, dest_folder)),
                     "Folder '{src_folder}' copied successfully to {dest_folder}!",
                     "Folder '{src_folder}' does not exist.")

copy_folder(src_folder, dest_folder) ==
    Operation(Call("copy_folder", src_folder, dest_folder, << >>),
              copy_folder_out(fs, src_folder, dest_folder))

move_out(f, src, dest, message, missing) ==
    LET made == Makedirs(f, DirName(f, dest))
    IN  transfer_out(f, src, dest, made,
                     Move(made.fs, PathOf(f, src), PathOf(f, dest)),
                     message, missing)

move_file(src_file, dest_file) ==
    Operation(Call("move_file", src_file, dest_file, << >>),
              move_out(fs, src_file, dest_file,
                       "File '{src_file}' moved successfully to {dest_file}!",
                       "File '{src_file}' does not exist."))

move_folder(src_folder, dest_folder) ==
    Operation(Call("move_folder", src_folder, dest_folder, << >>),
              move_out(fs, src_folder, dest_folder,
                       "Folder '{src_folder}' moved successfully to {dest_folder}!",
                       "Folder '{src_folder}' does not exist."))

\* the path is used as it is given, not joined to base_path
is_file(path) ==
    LET p == Resolve(fs, FsRoot, path.comps)
    IN  Operation(Call("is_file", path, Rel(<< >>), << >>),
                  Out(fs, Bool(IsFile(fs, p)), { p }))

is_directory(path) ==
    LET p == Resolve(fs, FsRoot, path.comps)
    IN  Operation(Call("is_directory", path, Rel(<< >>), << >>),
                  Out(fs, Bool(IsDir(fs, p)), { p }))

\* metadata.st_size: the number of bytes of a file (what a directory reports
\* is left to the file system, and is 0 here)
StSize(f, p) == Len(f[p].content)

get_file_metadata_out(f, file_name) ==
    LET file_path == PathOf(f, file_name)
    IN  IF Exists(f, file_path)
        THEN Out(f, Dict(StSize(f, file_path)), { file_path })
        ELSE Out(f, Str("File '{file_name}' does not exist."), { file_path })

get_file_metadata(file_name) ==
    Operation(Call("get_file_metadata", file_name, Rel(<< >>), << >>),
              get_file_metadata_out(fs, file_name))

----------------------------------------------------------------------------
(* Calls of the operations, in any order, from an empty base folder *)

\* the path arguments: "b", "b/ab" and "../b"
PathArgs ==
    { Rel(<< NameB >>), Rel(<< NameB, NameAB >>), Rel(<< DotDot, NameB >>) }

\* the path arguments of the operations that only read: "/b" as well
ReadArgs == PathArgs \cup { Abs(<< NameB >>) }

\* the absolute paths is_file and is_directory are given
AbsArgs == { Abs(<< NameB >>), Abs(<< NameW, NameB >>) }

\* the folders listed and searched: "", "b" and ".."
DirArgs == { Rel(<< >>), Rel(<< NameB >>), Rel(<< DotDot >>) }

\* the contents written
Written == { << "a" >>, << CR, LF >> }

InitOps ==
    /\ fs = [ p \in { FsRoot, base_path } |-> DirNode("rw") ]
    /\ scanOrder \in Orders
    /\ snapshot = fs
    /\ SearchIdle

NextOps ==
    \/ \E a \in PathArgs : create_folder(a)
    \/ \E a \in PathArgs : delete_folder(a)
    \/ \E a \in PathArgs, c \in Written : create_file(a, c)
    \/ \E a \in PathArgs : delete_file(a)
    \/ \E a \in ReadArgs : read_file(a)
    \/ \E a \in PathArgs, c \in Written : write_to_file(a, c)
    \/ \E a \in DirArgs : list_files(a)
    \/ \E a, b \in PathArgs : copy_file(a, b)
    \/ \E a, b \in PathArgs : copy_folder(a, b)
    \/ \E a, b \in PathArgs : move_file(a, b)
    \/ \E a, b \in PathArgs : move_folder(a, b)
    \/ \E a \in AbsArgs : is_file(a)
    \/ \E a \in AbsArgs : is_directory(a)
    \/ \E a \in ReadArgs : get_file_metadata(a)
    \/ \E dir \in DirArgs : SearchStart(<< "a" >>, dir)
    \/ WalkDir
    \/ VisitFile
    \/ SearchReturn

SpecOps == InitOps /\ [][NextOps]_vars

----------------------------------------------------------------------------
(* What the claims speak of *)

\* the set of the paths search_files returned
Result == Range(matching_files)

\* the resolved search root of the call under way
SearchRoot == PathOf(snapshot, directory)

\* the files of tree f strictly below directory d
FilesBelow(f, d) ==
    { p \in DOMAIN f : IsFile(f, p) /\ Within(d, p) /\ p # d }

\* every directory from d down to the one holding p can be listed
Walkable(f, d, p) ==
    \A i \in Len(d) .. (Len(p) - 1) : Listable(f, SubSeq(p, 1, i))

NameHas(kw, p) == IsSubstring(kw, BaseName(p))

\* the file opens for reading and its bytes decode as text
ReadableAsText(f, p) == f[p].acc = "rw" /\ Decodable(f[p].content)

Returned == pc = "done"

----------------------------------------------------------------------------
(* C1 *)

\* C1 as stated: when search_files returns, a path is in the list iff it is
\* a file of the subtree of the search root and its name contains the
\* keyword, or it is readable as text and its stored content contains it.
C1_AsStated ==
    Returned =>
        Result = { p \in FilesBelow(fs, SearchRoot) :
                     \/ NameHas(keyword, p)
                     \/ /\ ReadableAsText(fs, p)
                        /\ IsSubstring(keyword, fs[p].content) }

\* C1 amended: when search_files returns, a path is in the list iff it is a
\* file of the subtree of the search root that the walk can reach (every
\* directory from the search root down to the file can be listed) and its
\* name contains the keyword, or it is readable as text and its content as
\* text mode reads it (CR LF and CR read as LF) contains the keyword.
C1_SearchResult ==
    Returned =>
        Result = { p \in FilesBelow(fs, SearchRoot) :
                     /\ Walkable(fs, SearchRoot, p)
                     /\ \/ NameHas(keyword, p)
                        \/ /\ ReadableAsText(fs, p)
                           /\ IsSubstring(keyword, Translate(fs[p].content)) }

\* a search of base_path has returned a file two levels down that matches by
\* content alone, and has left out a file that does not decode
C1_Witness ==
    /\ Returned
    /\ SearchRoot = base_path
    /\ keyword # << >>
    /\ \E p \in Result : Len(p) = 3 /\ ~NameHas(keyword, p)
    /\ \E p \in FilesBelow(fs, base_path) :
          /\ ~Decodable(fs[p].content)
          /\ p \in opened
          /\ p \notin Result

----------------------------------------------------------------------------
(* C2 *)

\* C2 as stated: whatever makes opening or decoding a candidate fail, the
\* search skips the file and returns normally: search_files never raises.
C2_NeverRaises == pc # "raised"

----------------------------------------------------------------------------
(* C3 *)

\* C3 as stated: a file that another process deletes after the walk listed
\* it and before search_files opens it is skipped; the deletion never
\* reaches the caller as an error.
C3_DeletionSkipped ==
    ~(pc = "raised" /\ exc = "FileNotFoundError"
        /\ \E p \in listed \cap opened : ~Exists(fs, p))

----------------------------------------------------------------------------
(* C4 *)

\* C4: search_files called with a search root that does not exist raises
\* nothing and returns an empty list, for every keyword.
C4_MissingRoot ==
    (pc # "idle" /\ ~Exists(snapshot, SearchRoot)) =>
        /\ pc # "raised"
        /\ matching_files = << >>
        /\ (pc = "walk" => (stack = << >> \/ ~Listable(fs, Head(stack))))

\* a search of a root that does not exist has returned
C4_Witness ==
    /\ Returned
    /\ ~Exists(snapshot, SearchRoot)
    /\ keyword # << >>
    /\ FilesBelow(fs, base_path) # {}

----------------------------------------------------------------------------
(* C5 *)

\* C5: the list search_files builds never holds the same path twice.
C5_NoDuplicates ==
    \A i, j \in 1 .. Len(matching_files) :
        matching_files[i] = matching_files[j] => i = j

\* a file that matches by name and by content is in the returned list
C5_Witness ==
    /\ Returned
    /\ \E p \in Result :
          /\ NameHas(keyword, p)
          /\ ReadableAsText(fs, p)
          /\ IsSubstring(keyword, Translate(fs[p].content))
          /\ keyword # << >>

----------------------------------------------------------------------------
(* C6 *)

\* C6 as stated: every file of the searched subtree whose name contains the
\* keyword is in the result, and is never opened.
C6_AsStated ==
    /\ Returned =>
          \A p \in FilesBelow(fs, SearchRoot) :
              NameHas(keyword, p) => p \in Result
    /\ \A p \in opened : ~NameHas(keyword, p)

\* C6 amended: every file of the searched subtree that the walk can reach
\* (every directory from the search root down to it can be listed) and whose
\* name contains the keyword is in the result whatever its content or
\* readability, and no file whose name contains the keyword is ever opened.
C6_NameMatch ==
    /\ Returned =>
          \A p \in FilesBelow(fs, SearchRoot) :
              (Walkable(fs, SearchRoot, p) /\ NameHas(keyword, p))
                  => p \in Result
    /\ \A p \in opened : ~NameHas(keyword, p)

\* a file that cannot be read as text is in the result by its name, while
\* another file was opened
C6_Witness ==
    /\ Returned
    /\ keyword # << >>
    /\ opened # {}
    /\ \E p \in Result : NameHas(keyword, p) /\ ~ReadableAsText(fs, p)

----------------------------------------------------------------------------
(* C7 *)

\* C7: a second search with the same keyword and root of an unchanged tree
\* returns the same paths in the same order as the first.
C7_Repeatable ==
    (Returned /\ prev # NoPrev /\ fs = snapshot) => matching_files = prev

\* a repeated search has returned two or more paths
C7_Witness ==
    /\ Returned
    /\ prev # NoPrev
    /\ fs = snapshot
    /\ Len(matching_files) >= 2

----------------------------------------------------------------------------
(* C8 *)

\* C8: search_files leaves the folders, the files and every file's content
\* as they were when it was called.
C8_NoSideEffects == pc # "idle" => fs = snapshot

\* searches have returned a match, skipped a file they could not read, and
\* found nothing
C8_Witness ==
    /\ Returned
    /\ \E p \in opened : ~ReadableAsText(fs, p)
    /\ \E p \in opened : p \in Result

----------------------------------------------------------------------------
(* C9 *)

\* the paths the operation called last has read, made, changed, removed or
\* inspected
Touched == (touched \cup opened \cup Range(visited)) \ { NoEnt }

\* C9 as stated: whatever path argument an operation is given, absolute
\* paths and paths with ".." included, every path it works on lies in the
\* subtree of base_path.
C9_ScopedToBase == \A p \in Touched : Within(base_path, p)

----------------------------------------------------------------------------
(* C10 *)

\* C10 as stated: get_file_metadata always returns a string, the message
\* "does not exist" for a file that does not exist.
C10_MetadataIsString ==
    op.name = "get_file_metadata" =>
        /\ ret.kind = "str"
        /\ ~PathExists(fs, op.a1) => ret.msg = "File '{file_name}' does not exist."

----------------------------------------------------------------------------
(* C11 *)

\* C11 as stated: after any sequence of create_file and write_to_file calls,
\* read_file(name) returns exactly the content passed to the most recent of
\* them on that name, a nested name included.
C11_RoundTrip ==
    (op.name = "read_file" /\ op.a1 \in DOMAIN written) =>
        ret = Text(written[op.a1])

----------------------------------------------------------------------------
(* C12 *)

\* the content test of search_files finds the keyword in file p
ContentHas(f, kw, p) ==
    OpenRead(f, p).err = "" /\ IsSubstring(kw, OpenRead(f, p).text)

\* what holds of the directories os.walk could not list: none of them has
\* given an entry, a search that raised was ended by the open of a file, and
\* a search that returned has listed every directory it could reach and
\* returns every match of the directories it listed
PassedOver ==
    /\ \A d \in skipped :
          /\ d \notin Range(visited)
          /\ \A p \in listed : Parent(p) # d
    /\ pc = "raised" =>
          /\ exc \notin Caught
          /\ \E p \in opened : OpenRead(fs, p).err = exc
    /\ Returned =>
          /\ \A d \in DOMAIN fs :
                (Within(SearchRoot, d) /\ Listable(fs, d)
                     /\ Walkable(fs, SearchRoot, d))
                  => d \in Range(visited)
          /\ \A p \in FilesBelow(fs, SearchRoot) :
                (Parent(p) \in Range(visited)
                     /\ (NameHas(keyword, p) \/ ContentHas(fs, keyword, p)))
                  => p \in Result

\* the step of the walk at a directory that cannot be listed: the search
\* goes on with the directories pending and keeps the matches it has
PassingOver ==
    (pc = "walk" /\ todo = << >> /\ stack # << >>
         /\ ~Listable(fs, Head(stack)) /\ fs' = fs)
      => /\ pc' = "walk"
         /\ exc' = ""
         /\ stack' = Tail(stack)
         /\ matching_files' = matching_files
         /\ listed' = listed
         /\ visited' = visited

\* C12: an error while listing a directory of the searched subtree (one
\* that is unreadable, that another process removed during the walk, or a
\* search root that is a file) never ends search_files: the directory gives
\* no entry, the walk goes on with the directories pending, and the matches
\* found elsewhere are returned.
C12_ListingErrorPassedOver == [] PassedOver /\ [][PassingOver]_vars

\* a search has returned a match from a directory it listed after passing
\* over a directory that another process had removed during the walk
C12_Witness ==
    /\ Returned
    /\ \E d \in skipped, p \in Result :
          /\ IsDir(snapshot, d)
          /\ ~Exists(fs, d)
          /\ Parent(d) = SearchRoot
          /\ Parent(Parent(p)) = SearchRoot
          /\ scanOrder[1] = BaseName(d)

----------------------------------------------------------------------------
(* C13 *)

\* the operations the claim names, and the messages that report a missing
\* file or folder
MissingCalls ==
    { "delete_folder", "delete_file", "read_file", "copy_file", "copy_folder",
      "move_file", "move_folder" }

DoesNotExist ==
    { "Folder '{folder_name}' does not exist.",
      "File '{file_name}' does not exist.",
      "File '{src_file}' does not exist.",
      "Folder '{src_folder}' does not exist." }

\* a step that is a call of one of these operations with a target or source
\* that does not exist
MissingCall ==
    /\ pc = "idle"
    /\ pc' = "idle"
    /\ op'.name \in MissingCalls
    /\ ~PathExists(fs, op'.a1)

\* C13 as stated: delete_folder, delete_file, read_file, copy_file,
\* copy_folder, move_file and move_folder called with a target or source that
\* does not exist raise nothing, return a message with "does not exist", and
\* leave the file system exactly as it was, whatever the destination.
C13_MissingIsNoOp ==
    [][ MissingCall =>
          /\ ret'.kind = "str"
          /\ ret'.msg \in DoesNotExist
          /\ fs' = fs ]_vars

----------------------------------------------------------------------------
(* C14 *)

\* the directories of tree f at and below directory d
DirsBelow(f, d) == { p \in DOMAIN f : IsDir(f, p) /\ Within(d, p) }

\* x is in seq exactly once
Once(seq, x) == Cardinality({ i \in 1 .. Len(seq) : seq[i] = x }) = 1

\* C14 as stated: in a tree that nothing changes during the call,
\* search_files ends by returning its list (it does not raise), and by then
\* it has visited every directory of the searched subtree exactly once and
\* has applied the match test to every file of the subtree exactly once, at
\* every depth.
C14_VisitsAllOnce ==
    /\ pc # "raised"
    /\ Returned =>
          /\ \A d \in DirsBelow(fs, SearchRoot) : Once(visited, d)
          /\ \A p \in FilesBelow(fs, SearchRoot) : Once(tested, p)

====
